---- MODULE Spec2Model ----
(***************************************************************************)
(* Retrieval-augmented question answering: the vector store wrapper        *)
(* (utils/vector_store.py), the RAG chain (utils/rag_chain.py), the        *)
(* document processor (utils/document_processor.py) and the Streamlit      *)
(* session handlers (app.py).                                              *)
(*                                                                         *)
(* A text is a sequence of one-character strings; the fixed pieces of an   *)
(* f-string are kept as single tokens.  The empty text "" is << >>.        *)
(***************************************************************************)
EXTENDS Integers, Sequences, FiniteSets, TLC

VARIABLES
    vectorstore,          \* VectorStore.vectorstore: None or the Chroma handle
    collection,           \* the persisted collection "rag_collection" under persist_directory
    inserted,             \* history: the chunks inserted since the most recent delete_collection()
    cleared,              \* history: delete_collection() was called and no insert followed yet
    documents_processed,  \* st.session_state.documents_processed
    chat_history,         \* st.session_state.chat_history
    call,                 \* the operation that ran last, with its inputs
    ret                   \* what that operation returned

vars == <<vectorstore, collection, inserted, cleared, documents_processed, chat_history, call, ret>>

\* ------------------------------------------------------------------ bounds
MaxStored == 2      \* most chunks the collection holds
MaxK == 2           \* largest k a caller of generate_answer passes
MaxBatch == 2       \* most documents handed to one add_documents call

\* ------------------------------------------------------------- text helpers
None == "None"
Chroma == "Chroma"

Whitespace == {" ", "\n", "\t"}

SetMin(S) == CHOOSE x \in S : \A y \in S : x <= y
SetMax(S) == CHOOSE x \in S : \A y \in S : x >= y
Minimum(a, b) == IF a <= b THEN a ELSE b

\* str.strip(): the text without its leading and trailing whitespace
strip(s) ==
    LET keep == {i \in 1..Len(s) : s[i] \notin Whitespace}
    IN  IF keep = {} THEN << >> ELSE SubSeq(s, SetMin(keep), SetMax(keep))

\* str(i) of a positive integer, as its decimal digits
RECURSIVE str_int(_)
str_int(i) ==
    LET digit == <<"0", "1", "2", "3", "4", "5", "6", "7", "8", "9">>
    IN  IF i < 10 THEN <<digit[i + 1]>> ELSE str_int(i \div 10) \o <<digit[(i % 10) + 1]>>

\* dict.get(key, default)
dict_get(d, key, default) == IF key \in DOMAIN d THEN d[key] ELSE default

\* sep.join(parts)
RECURSIVE join(_, _)
join(sep, parts) ==
    IF parts = << >> THEN << >>
    ELSE IF Len(parts) = 1 THEN parts[1]
    ELSE parts[1] \o sep \o join(sep, Tail(parts))

\* a try block's outcome: a value, or the exception that left it
Returned(v) == [raised |-> FALSE, value |-> v]
Raised(e) == [raised |-> TRUE, error |-> e]

\* ------------------------------------------------------------- VectorStore
\* The store is the pair of the in-memory handle and the persisted collection.
Store(vs, coll) == [vectorstore |-> vs, collection |-> coll]

\* VectorStore.__init__: no handle; the persist directory is kept as it is
\* (os.makedirs(..., exist_ok=True)).
VectorStore_init(coll) == Store(None, coll)

\* Chroma.from_documents(persist_directory, collection_name): opens the named
\* collection of the directory, creating it when absent, and adds the documents.
create_vectorstore(st, documents) == Store(Chroma, st.collection \o documents)

add_documents(st, documents) ==
    IF st.vectorstore = None
    THEN create_vectorstore(st, documents)
    ELSE Store(st.vectorstore, st.collection \o documents)

\* The rankings the library may return for k over n stored vectors: min(k, n)
\* distinct stored vectors, in the order of the embedding's similarity.
Rankings(n, k) ==
    {r \in [1..Minimum(k, n) -> 1..n] : \A i, j \in DOMAIN r : i # j => r[i] # r[j]}

similarity_search(st, k, ranking) ==
    IF st.vectorstore = None
    THEN << >>
    ELSE [i \in 1..Len(ranking) |-> st.collection[ranking[i]]]

\* a variant that leaves the handle and the collection in place
delete_collection_keeps_handle(st) == Store(st.vectorstore, st.collection)

delete_collection(st) ==
    IF st.vectorstore # None
    THEN Store(None, << >>)
    ELSE st

get_collection_info(st, count_ok) ==
    IF st.vectorstore = None
    THEN [status |-> <<"No collection loaded">>, count |-> 0]
    ELSE IF count_ok
         THEN [status |-> <<"Collection loaded">>, count |-> Len(st.collection)]
         ELSE [status |-> <<"Error: ", "count failed">>, count |-> 0]

\* ---------------------------------------------------------------- RAGChain
PREVIEW_LEN == 200

NOT_FOUND_ANSWER == <<"I couldn't find any relevant information to answer your question.">>
NO_CONTEXT == <<"No relevant context found.">>
ERROR_PREFIX == "An error occurred while generating the answer: "

retrieve_documents(st, query, k, search) ==
    IF st.vectorstore = None
    THEN Returned(similarity_search(st, k, << >>))
    ELSE IF search.ok
         THEN Returned(similarity_search(st, k, search.ranking))
         ELSE Raised(search.error)

\* a variant that numbers the blocks from 0
format_context_from_0(documents) ==
    IF documents = << >>
    THEN NO_CONTEXT
    ELSE LET context_parts ==
                 [i \in 1..Len(documents) |->
                     LET doc == documents[i]
                         source == dict_get(doc.metadata, "filename", <<"Unknown source">>)
                         content == strip(doc.page_content)
                     IN  <<"Document ">> \o str_int(i - 1) \o <<" (Source: ">> \o source
                             \o <<"):", "\n">> \o content]
         IN  join(<<"\n", "\n">>, context_parts)

format_context(documents) ==
    IF documents = << >>
    THEN NO_CONTEXT
    ELSE LET context_parts ==
                 [i \in 1..Len(documents) |->
                     LET doc == documents[i]
                         source == dict_get(doc.metadata, "filename", <<"Unknown source">>)
                         content == strip(doc.page_content)
                     IN  <<"Document ">> \o str_int(i) \o <<" (Source: ">> \o source
                             \o <<"):", "\n">> \o content]
         IN  join(<<"\n", "\n">>, context_parts)

generate_prompt(query, context) ==
    <<"You are a helpful AI assistant that answers questions based on the provided context. ",
      "Context:", "\n">> \o context \o <<"\n", "\n", "Question: ">> \o query
        \o <<"\n", "\n", "Answer: Please provide a comprehensive answer based on the context above.">>

\* self.model.generate_content(prompt) and response.text: the generated text, or
\* the exception of the hosted call
generate_content(prompt, llm) ==
    IF llm.ok THEN Returned(llm.text) ELSE Raised(llm.error)

\* a variant that truncates at the preview length itself
content_preview_from_200(page_content) ==
    IF Len(page_content) >= PREVIEW_LEN
    THEN SubSeq(page_content, 1, PREVIEW_LEN) \o <<".", ".", ".">>
    ELSE page_content

content_preview(page_content) ==
    IF Len(page_content) > PREVIEW_LEN
    THEN SubSeq(page_content, 1, PREVIEW_LEN) \o <<".", ".", ".">>
    ELSE page_content

extract_sources(documents) ==
    [i \in 1..Len(documents) |->
        [filename |-> dict_get(documents[i].metadata, "filename", <<"Unknown">>),
         content_preview |-> content_preview(documents[i].page_content)]]

\* a variant that hands back the formatter's sentinel as the context
not_found_result_with_sentinel ==
    [answer |-> NOT_FOUND_ANSWER, sources |-> << >>, context |-> NO_CONTEXT]

\* the dict returned when nothing was retrieved
not_found_result ==
    [answer |-> NOT_FOUND_ANSWER, sources |-> << >>, context |-> << >>]

\* the dict returned after the hosted model answered
success_result(query, documents, context, answer) ==
    [answer |-> answer, sources |-> extract_sources(documents), context |-> context,
     query |-> query]

\* the dict returned by the except branch
error_result(query, e) ==
    [answer |-> <<ERROR_PREFIX, e>>, sources |-> << >>, context |-> << >>, query |-> query]

\* The body of generate_answer's try block: it returns a dict or is left by an
\* exception; llm_calls counts the calls of the hosted model it made.
try_generate_answer(st, query, k, search, llm) ==
    LET retrieved == retrieve_documents(st, query, k, search)
    IN  IF retrieved.raised
        THEN [raised |-> TRUE, error |-> retrieved.error, llm_calls |-> 0]
        ELSE LET documents == retrieved.value
             IN  IF documents = << >>
                 THEN [raised |-> FALSE, result |-> not_found_result, llm_calls |-> 0]
                 ELSE LET context == format_context(documents)
                          prompt == generate_prompt(query, context)
                          response == generate_content(prompt, llm)
                      IN  IF response.raised
                          THEN [raised |-> TRUE, error |-> response.error, llm_calls |-> 1]
                          ELSE [raised |-> FALSE, llm_calls |-> 1,
                                result |-> success_result(query, documents, context,
                                                          response.value)]

\* a variant without the except branch
generate_answer_propagates(st, query, k, search, llm) ==
    try_generate_answer(st, query, k, search, llm)

\* generate_answer: `result` is the dict it returns, `raised` whether the call
\* was left by an exception.
generate_answer(st, query, k, search, llm) ==
    LET body == try_generate_answer(st, query, k, search, llm)
    IN  IF body.raised
        THEN [raised |-> FALSE, result |-> error_result(query, body.error),
              llm_calls |-> body.llm_calls]
        ELSE body

\* ------------------------------------------------------------------ inputs
Rep(c, n) == [i \in 1..n |-> c]

ShortText == <<" ", "P", "a", "r", "i", "s", "\n">>
Text200 == Rep("x", PREVIEW_LEN)
Text201 == [i \in 1..(PREVIEW_LEN + 1) |-> IF i <= PREVIEW_LEN THEN "y" ELSE "z"]

\* a chunk as the document processor makes it
Document(page_content, filename) ==
    [page_content |-> page_content,
     metadata |-> [source |-> <<"data/documents", "/">> \o filename, filename |-> filename]]

\* short chunks, for the runs that follow the store through many operations
ShortDocuments ==
    {Document(ShortText, <<"geo", ".txt">>), Document(<<"B", "c">>, <<"notes", ".pdf">>)}

\* chunks below, at and above the preview length
LongDocuments ==
    {Document(ShortText, <<"geo", ".txt">>), Document(Text200, <<"geo", ".txt">>),
     Document(Text201, <<"notes", ".pdf">>)}

SeqsUpTo(S, n) == UNION {[1..m -> S] : m \in 0..n}

Questions == {<<"W", "h", "y", "?">>, <<"W", "h", "o", "?">>}

NotCalled == [ok |-> TRUE, ranking |-> << >>]

\* what the library's search may do for k: return a ranking, or raise
SearchOutcomesWith(st, k, error) ==
    IF st.vectorstore = None
    THEN {NotCalled}
    ELSE {[ok |-> TRUE, ranking |-> r] : r \in Rankings(Len(st.collection), k)}
             \cup {[ok |-> FALSE, error |-> error]}

SearchOutcomes(st, k) == SearchOutcomesWith(st, k, "index unavailable")

\* what the hosted model may do: answer, or raise
LLMOutcomesWith(error) ==
    {[ok |-> TRUE, text |-> <<"Paris.">>], [ok |-> FALSE, error |-> error]}

LLMOutcomes == LLMOutcomesWith("quota exceeded")

NoCall == [op |-> "none"]

\* ------------------------------------------- the VectorStore/RAGChain interface
InitRAG ==
    /\ vectorstore = None
    /\ collection = << >>
    /\ inserted = << >>
    /\ cleared = FALSE
    /\ documents_processed = FALSE
    /\ chat_history = << >>
    /\ call = NoCall
    /\ ret = NoCall

AddDocuments(documents) ==
    /\ Len(collection) + Len(documents) <= MaxStored
    /\ LET st == add_documents(Store(vectorstore, collection), documents)
       IN  /\ vectorstore' = st.vectorstore
           /\ collection' = st.collection
    /\ inserted' = inserted \o documents
    /\ cleared' = FALSE
    /\ call' = [op |-> "add_documents", documents |-> documents]
    /\ ret' = NoCall
    /\ UNCHANGED <<documents_processed, chat_history>>

DeleteCollection ==
    /\ LET st == delete_collection(Store(vectorstore, collection))
       IN  /\ vectorstore' = st.vectorstore
           /\ collection' = st.collection
    /\ inserted' = << >>
    /\ cleared' = TRUE
    /\ call' = [op |-> "delete_collection", loaded |-> vectorstore # None]
    /\ ret' = NoCall
    /\ UNCHANGED <<documents_processed, chat_history>>

GenerateAnswer(query, k, llm) ==
    \E search \in SearchOutcomes(Store(vectorstore, collection), k) :
        /\ call' = [op |-> "generate_answer", query |-> query, k |-> k,
                    search |-> search, llm |-> llm]
        /\ ret' = generate_answer(Store(vectorstore, collection), query, k, search, llm)
        /\ UNCHANGED <<vectorstore, collection, inserted, cleared,
                       documents_processed, chat_history>>

GetCollectionInfo(count_ok) ==
    /\ call' = [op |-> "get_collection_info", count_ok |-> count_ok]
    /\ ret' = get_collection_info(Store(vectorstore, collection), count_ok)
    /\ UNCHANGED <<vectorstore, collection, inserted, cleared, documents_processed, chat_history>>

\* A VectorStore constructed again over the same persist_directory, as the
\* application does for every new session and after clearing the knowledge base.
NewVectorStore ==
    /\ LET st == VectorStore_init(collection)
       IN  /\ vectorstore' = st.vectorstore
           /\ collection' = st.collection
    /\ call' = [op |-> "VectorStore"]
    /\ ret' = NoCall
    /\ UNCHANGED <<inserted, cleared, documents_processed, chat_history>>

NextRAG ==
    \/ \E documents \in SeqsUpTo(ShortDocuments, MaxBatch) \ {<< >>} : AddDocuments(documents)
    \/ DeleteCollection
    \/ \E query \in Questions, k \in 1..MaxK, llm \in LLMOutcomes : GenerateAnswer(query, k, llm)
    \/ \E count_ok \in BOOLEAN : GetCollectionInfo(count_ok)
    \/ NewVectorStore

SpecRAG == InitRAG /\ [][NextRAG]_vars

\* --------------------------------- generate_answer and format_context as functions
\* The store holds any chunks, long ones included; the function is applied once.
InitAnswer ==
    /\ \E coll \in SeqsUpTo(LongDocuments, MaxStored) :
          /\ collection = coll
          /\ vectorstore = IF coll = << >> THEN None ELSE Chroma
          /\ inserted = coll
    /\ cleared = FALSE
    /\ documents_processed = FALSE
    /\ chat_history = << >>
    /\ call = NoCall
    /\ ret = NoCall

\* the retrieval results the store can give: up to k of its chunks, in any order
Retrievals ==
    {[i \in 1..Len(r) |-> collection[r[i]]] :
        r \in UNION {Rankings(Len(collection), k) : k \in 0..MaxK}}

AnswerOnce(query, k, llm) ==
    /\ call = NoCall
    /\ GenerateAnswer(query, k, llm)

FormatContext(documents) ==
    /\ call = NoCall
    /\ call' = [op |-> "format_context", documents |-> documents]
    /\ ret' = format_context(documents)
    /\ UNCHANGED <<vectorstore, collection, inserted, cleared, documents_processed, chat_history>>

NextAnswer ==
    \/ \E query \in Questions, k \in 1..MaxK, llm \in LLMOutcomes : AnswerOnce(query, k, llm)
    \/ \E documents \in Retrievals : FormatContext(documents)

SpecAnswer == InitAnswer /\ [][NextAnswer]_vars

\* ------------------------------------------------------- DocumentProcessor
\* A file is its path together with what a reader finds there: whether it can
\* be opened, and the parts (PDF pages, DOCX paragraphs, the TXT content) a
\* parser yields, each a text or ParseError where the parser raises.
ParseError == <<"ParseError">>

DATA_DIR == <<"data/documents">>

CHUNK_SIZE == 1000
CHUNK_OVERLAP == 200

DocumentProcessor(chunk_size, chunk_overlap) ==
    [chunk_size |-> chunk_size, chunk_overlap |-> chunk_overlap]

\* os.path.join(directory, name)
path_join(directory, name) == directory \o <<"/">> \o name

\* os.path.basename(path): what follows the last separator
basename(path) ==
    LET seps == {i \in 1..Len(path) : path[i] = "/"}
    IN  IF seps = {} THEN path ELSE SubSeq(path, SetMax(seps) + 1, Len(path))

\* os.path.splitext(path)[1]: the last dotted piece of the base name, or ""
splitext_ext(path) ==
    LET base == basename(path)
    IN  IF Len(base) >= 2 /\ base[Len(base)] \in {".pdf", ".PDF", ".docx", ".txt", ".TXT", ".md"}
        THEN base[Len(base)]
        ELSE ""

\* str.lower() on an extension
lower(ext) ==
    CASE ext = ".PDF" -> ".pdf"
      [] ext = ".TXT" -> ".txt"
      [] OTHER -> ext

RECURSIVE concat(_)
concat(parts) == IF parts = << >> THEN << >> ELSE Head(parts) \o concat(Tail(parts))

\* text += page.extract_text() for each page, inside one try: an exception ends
\* the loop and the text read so far is returned
RECURSIVE read_parts(_, _)
read_parts(parts, suffix) ==
    IF parts = << >> \/ Head(parts) = ParseError
    THEN << >>
    ELSE Head(parts) \o suffix \o read_parts(Tail(parts), suffix)

extract_text_from_pdf(file) ==
    IF ~file.opens THEN << >> ELSE read_parts(file.parts, << >>)

extract_text_from_docx(file) ==
    IF ~file.opens THEN << >> ELSE read_parts(file.parts, <<"\n">>)

\* text = file.read(): assigned only when the whole read succeeds
extract_text_from_txt(file) ==
    IF ~file.opens \/ \E i \in DOMAIN file.parts : file.parts[i] = ParseError
    THEN << >>
    ELSE concat(file.parts)

\* RecursiveCharacterTextSplitter on a text without separators: windows of
\* chunk_size characters, each starting chunk_size - chunk_overlap after the
\* one before, stripped, the empty ones dropped
split_text(text, processor) ==
    LET size == processor.chunk_size
        step == processor.chunk_size - processor.chunk_overlap
        L == Len(text)
        n == IF L <= size THEN 1 ELSE 1 + ((L - size + step - 1) \div step)
        window(j) ==
            strip(SubSeq(text, (j - 1) * step + 1, Minimum((j - 1) * step + size, L)))
    IN  SelectSeq([j \in 1..n |-> window(j)], LAMBDA w : w # << >>)

split_documents(document, processor) ==
    LET texts == split_text(document.page_content, processor)
    IN  [j \in 1..Len(texts) |->
            [page_content |-> texts[j], metadata |-> document.metadata]]

process_document(file, processor) ==
    LET file_extension == lower(splitext_ext(file.file_path))
        supported == file_extension \in {".pdf", ".docx", ".txt"}
        text == CASE file_extension = ".pdf" -> extract_text_from_pdf(file)
                  [] file_extension = ".docx" -> extract_text_from_docx(file)
                  [] file_extension = ".txt" -> extract_text_from_txt(file)
                  [] OTHER -> << >>
    IN  IF ~supported
        THEN Raised(<<"Unsupported file format: ", file_extension>>)
        ELSE IF strip(text) = << >>
        THEN Raised(<<"No text extracted from ">> \o file.file_path)
        ELSE Returned(split_documents(
                 [page_content |-> text,
                  metadata |-> [source |-> file.file_path,
                                filename |-> basename(file.file_path)]],
                 processor))

RECURSIVE process_multiple_documents(_, _)
process_multiple_documents(file_paths, processor) ==
    IF file_paths = << >>
    THEN << >>
    ELSE LET chunks == process_document(Head(file_paths), processor)
             rest == process_multiple_documents(Tail(file_paths), processor)
         IN  IF chunks.raised THEN rest ELSE chunks.value \o rest

\* ------------------------------------------------------ ingestion as a function
MaxFiles == 2       \* most files handed to one process_multiple_documents call
ChunkSize == 3      \* chunk_size of the processor under test
ChunkOverlap == 1   \* its chunk_overlap

File(name, opens, parts) ==
    [file_path |-> path_join(DATA_DIR, name), opens |-> opens, parts |-> parts]

IngestFiles ==
    {File(<<"a", ".pdf">>, TRUE, <<<<"p", "q">>, <<" ", "r", "s", "t">>>>),
     File(<<"b", ".PDF">>, TRUE, <<<<"u">>, ParseError, <<"v">>>>),
     File(<<"c", ".pdf">>, TRUE, <<ParseError, <<"w">>>>),
     File(<<"d", ".docx">>, TRUE, <<<<"k">>, <<"l", "m">>>>),
     File(<<"e", ".docx">>, FALSE, <<<<"k">>>>),
     File(<<"f", ".txt">>, TRUE, <<<<"x", "y", "z", " ", "x", "y">>>>),
     File(<<"g", ".txt">>, TRUE, <<<<" ", "\n">>>>),
     File(<<"h", ".txt">>, TRUE, <<ParseError>>),
     File(<<"i", ".md">>, TRUE, <<<<"n">>>>)}

InitIngest ==
    /\ vectorstore = None
    /\ collection = << >>
    /\ inserted = << >>
    /\ cleared = FALSE
    /\ documents_processed = FALSE
    /\ chat_history = << >>
    /\ call \in {[op |-> "input", file_paths |-> fs] : fs \in SeqsUpTo(IngestFiles, MaxFiles)}
    /\ ret = NoCall

ProcessMultipleDocuments ==
    /\ call.op = "input"
    /\ call' = [op |-> "process_multiple_documents", file_paths |-> call.file_paths]
    /\ ret' = process_multiple_documents(call.file_paths,
                                         DocumentProcessor(ChunkSize, ChunkOverlap))
    /\ UNCHANGED <<vectorstore, collection, inserted, cleared, documents_processed, chat_history>>

NextIngest == ProcessMultipleDocuments

SpecIngest == InitIngest /\ [][NextIngest]_vars

\* --------------------------------------------------------- app.py: uploads
\* An uploaded file: its name, its size in bytes, and what its bytes hold for a
\* parser once saved.
max_size == 10 * 1024 * 1024

RECURSIVE unique_files(_, _)
unique_files(uploaded_files, seen) ==
    IF uploaded_files = << >>
    THEN << >>
    ELSE LET f == Head(uploaded_files)
         IN  IF f.name \notin seen
             THEN <<f>> \o unique_files(Tail(uploaded_files), seen \cup {f.name})
             ELSE unique_files(Tail(uploaded_files), seen)

RECURSIVE last_unique_files(_, _)
last_unique_files(uploaded_files, seen) ==
    IF uploaded_files = << >>
    THEN << >>
    ELSE LET f == uploaded_files[Len(uploaded_files)]
             front == SubSeq(uploaded_files, 1, Len(uploaded_files) - 1)
         IN  IF f.name \notin seen
             THEN last_unique_files(front, seen \cup {f.name}) \o <<f>>
             ELSE last_unique_files(front, seen)

\* a variant that keeps the last file of each name
filter_uploads_keeps_last(uploaded_files) ==
    last_unique_files(SelectSeq(uploaded_files, LAMBDA f : f.size <= max_size), {})

\* main(): the size filter, then the deduplication by filename
filter_uploads(uploaded_files) ==
    unique_files(SelectSeq(uploaded_files, LAMBDA f : f.size <= max_size), {})

MaxUploads == 3     \* most files in one upload batch

Upload(name, size, parts) == [name |-> name, size |-> size, opens |-> TRUE, parts |-> parts]

UploadSizes == {5 * 1024 * 1024, max_size, max_size + 1, 11010048}

Uploads ==
    {Upload(name, size, <<<<"t">>>>) : name \in {<<"a", ".txt">>, <<"b", ".pdf">>},
                                      size \in UploadSizes}

InitUpload ==
    /\ vectorstore = None
    /\ collection = << >>
    /\ inserted = << >>
    /\ cleared = FALSE
    /\ documents_processed = FALSE
    /\ chat_history = << >>
    /\ call \in {[op |-> "input", uploaded_files |-> fs] : fs \in SeqsUpTo(Uploads, MaxUploads)}
    /\ ret = NoCall

FilterUploads ==
    /\ call.op = "input"
    /\ call' = [op |-> "filter_uploads", uploaded_files |-> call.uploaded_files]
    /\ ret' = filter_uploads(call.uploaded_files)
    /\ UNCHANGED <<vectorstore, collection, inserted, cleared, documents_processed, chat_history>>

NextUpload == FilterUploads

SpecUpload == InitUpload /\ [][NextUpload]_vars

\* ----------------------------------------------------- app.py: the session
DEFAULT_K == 4
DISPLAY_LAST == 5
TITLE_LEN == 50

MaxHistory == 6     \* most questions answered in one session
MaxSessionChunks == 1   \* most chunks a session's knowledge base holds

\* display_chat_history(): what the history column shows
display_chat_history(history) ==
    IF history # << >>
    THEN LET recent == SubSeq(history, Len(history) - Minimum(DISPLAY_LAST, Len(history)) + 1,
                              Len(history))
         IN  [info |-> << >>,
              expanders |->
                  [i \in 1..Len(recent) |->
                      LET chat == recent[Len(recent) - i + 1]
                      IN  [title |-> <<"Q: ">>
                                       \o SubSeq(chat.question, 1,
                                                 Minimum(TITLE_LEN, Len(chat.question)))
                                       \o <<"...">>,
                           answer |-> chat.answer]]]
    ELSE [info |-> <<"No questions asked yet.">>, expanders |-> << >>]

\* the session state after the script's first lines and initialize_components()
Init ==
    /\ vectorstore = None
    /\ collection = << >>
    /\ inserted = << >>
    /\ cleared = FALSE
    /\ documents_processed = FALSE
    /\ chat_history = << >>
    /\ call = NoCall
    /\ ret = NoCall

\* "Process Documents": main() filters the uploads and process_documents()
\* saves, chunks and inserts them.  `failure` is where an exception is raised:
\* "save" while writing the files, "embed" inside add_documents, "none" nowhere.
ProcessDocuments(uploaded_files, failure) ==
    LET files == filter_uploads(uploaded_files)
        file_paths ==
            [i \in 1..Len(files) |->
                [file_path |-> path_join(DATA_DIR, files[i].name),
                 opens |-> files[i].opens, parts |-> files[i].parts]]
        documents ==
            process_multiple_documents(file_paths, DocumentProcessor(CHUNK_SIZE, CHUNK_OVERLAP))
        st == add_documents(Store(vectorstore, collection), documents)
    IN  /\ files # << >>
        /\ Len(collection) + Len(documents) <= MaxSessionChunks
        /\ IF failure = "save" \/ (failure = "embed" /\ documents # << >>)
           THEN /\ documents_processed' = FALSE
                /\ call' = [op |-> "process_documents", outcome |-> "error"]
                /\ UNCHANGED <<vectorstore, collection, inserted, cleared>>
           ELSE IF documents # << >>
           THEN /\ vectorstore' = st.vectorstore
                /\ collection' = st.collection
                /\ inserted' = inserted \o documents
                /\ cleared' = FALSE
                /\ documents_processed' = TRUE
                /\ call' = [op |-> "process_documents", outcome |-> "processed"]
           ELSE /\ documents_processed' = FALSE
                /\ call' = [op |-> "process_documents", outcome |-> "nothing processed"]
                /\ UNCHANGED <<vectorstore, collection, inserted, cleared>>
        /\ ret' = NoCall
        /\ UNCHANGED chat_history

\* "Ask Question" without processed documents, or with a blank question
RejectQuestion(user_question) ==
    /\ ~documents_processed \/ strip(user_question) = << >>
    /\ call' = [op |-> "question rejected", question |-> user_question]
    /\ ret' = NoCall
    /\ UNCHANGED <<vectorstore, collection, inserted, cleared, documents_processed, chat_history>>

\* "Ask Question" that reaches ask_question()
AskQuestion(user_question, llm) ==
    /\ documents_processed
    /\ strip(user_question) # << >>
    /\ Len(chat_history) < MaxHistory
    /\ \E search \in SearchOutcomesWith(Store(vectorstore, collection), DEFAULT_K, "timed out") :
          LET answered == generate_answer(Store(vectorstore, collection), user_question,
                                          DEFAULT_K, search, llm)
          IN  /\ chat_history' =
                     IF answered.raised
                     THEN chat_history
                     ELSE Append(chat_history,
                                 [question |-> user_question,
                                  answer |-> answered.result.answer,
                                  sources |-> answered.result.sources])
              /\ call' = [op |-> "ask_question", question |-> user_question]
              /\ ret' = answered
    /\ UNCHANGED <<vectorstore, collection, inserted, cleared, documents_processed>>

\* a variant that also empties the chat history
ClearKnowledgeBase_forgets_history ==
    /\ LET st == VectorStore_init(delete_collection(Store(vectorstore, collection)).collection)
       IN  /\ vectorstore' = st.vectorstore
           /\ collection' = st.collection
    /\ inserted' = << >>
    /\ cleared' = TRUE
    /\ documents_processed' = FALSE
    /\ chat_history' = << >>
    /\ call' = [op |-> "clear_knowledge_base"]
    /\ ret' = NoCall

\* a variant that leaves documents_processed as it was
ClearKnowledgeBase_keeps_processed ==
    /\ LET st == VectorStore_init(delete_collection(Store(vectorstore, collection)).collection)
       IN  /\ vectorstore' = st.vectorstore
           /\ collection' = st.collection
    /\ inserted' = << >>
    /\ cleared' = TRUE
    /\ call' = [op |-> "clear_knowledge_base"]
    /\ ret' = NoCall
    /\ UNCHANGED <<documents_processed, chat_history>>

\* "Clear Knowledge Base": clear_knowledge_base(), then the rerun's
\* initialize_components() constructs the next VectorStore
ClearKnowledgeBase ==
    /\ LET st == VectorStore_init(delete_collection(Store(vectorstore, collection)).collection)
       IN  /\ vectorstore' = st.vectorstore
           /\ collection' = st.collection
    /\ inserted' = << >>
    /\ cleared' = TRUE
    /\ documents_processed' = FALSE
    /\ call' = [op |-> "clear_knowledge_base"]
    /\ ret' = NoCall
    /\ UNCHANGED chat_history

GeoFile == Upload(<<"geo", ".txt">>, 5 * 1024 * 1024, <<<<"P", "a", " ">>>>)
BlankFile == Upload(<<"blank", ".txt">>, 1024, <<<<" ", "\n">>>>)
BigFile == Upload(<<"big", ".pdf">>, max_size + 1, <<<<"B">>>>)

\* upload batches: one good file; one without text; an oversized file and a
\* file uploaded twice
SessionBatches == {<<GeoFile>>, <<BlankFile>>, <<BigFile, GeoFile, GeoFile>>}

SessionQuestions == {<<"W", "h", "y", "?">>, <<" ">>}

Next ==
    \/ \E uploaded_files \in SessionBatches, failure \in {"none", "save", "embed"} :
          ProcessDocuments(uploaded_files, failure)
    \/ \E user_question \in SessionQuestions : RejectQuestion(user_question)
    \/ \E user_question \in SessionQuestions, llm \in LLMOutcomesWith("timed out") :
          AskQuestion(user_question, llm)
    \/ ClearKnowledgeBase

Spec == Init /\ [][Next]_vars

\* ================================================================== claims
AnswerCall == call.op = "generate_answer"

\* what the retrieval step of the last generate_answer call gave
Retrieved == retrieve_documents(Store(vectorstore, collection), call.query, call.k, call.search)

AnswerSucceeded ==
    /\ AnswerCall
    /\ ~Retrieved.raised
    /\ Retrieved.value # << >>
    /\ call.llm.ok

Embeds(text, description) == \E i \in DOMAIN text : text[i] = description

\* C1: whenever the index search of a generate_answer call returns an empty
\* result (an index without insertions included), the call returns the fixed
\* "I couldn't find any relevant information ..." answer with sources = [] and
\* context = "", and the hosted model is not called.
C1_EmptyRetrievalShortCircuits ==
    (AnswerCall /\ ~Retrieved.raised /\ Retrieved.value = << >>) =>
        /\ ~ret.raised
        /\ ret.result.answer
             = <<"I couldn't find any relevant information to answer your question.">>
        /\ ret.result.sources = << >>
        /\ ret.result.context = << >>
        /\ ret.llm_calls = 0

\* a question put to a store that never had an insertion
C1_Witness ==
    /\ AnswerCall
    /\ vectorstore = None
    /\ collection = << >>
    /\ inserted = << >>
    /\ ~cleared
    /\ ret.llm_calls = 0

\* C2: after delete_collection(), whatever came before, every search returns an
\* empty result until the next insert.
C2_SearchEmptyAfterClear ==
    cleared =>
        /\ \A k \in 1..MaxK :
              \A search \in SearchOutcomes(Store(vectorstore, collection), k) :
                  search.ok =>
                      similarity_search(Store(vectorstore, collection), k, search.ranking) = << >>
        /\ AnswerCall => Retrieved = Returned(<< >>)

\* a question answered after a clear, before any new insert
C2_Witness ==
    /\ cleared
    /\ AnswerCall
    /\ ret.result.sources = << >>

\* C3: at every point the collection, in memory and in its persisted storage,
\* holds exactly the chunks inserted since the most recent delete_collection(),
\* one stored vector each, and get_collection_info() reports that count (0 and
\* "No collection loaded" when there is no handle).
C3_CollectionIsInsertedSinceClear ==
    /\ collection = inserted
    /\ (call.op = "get_collection_info" /\ vectorstore = None) =>
           ret = [status |-> <<"No collection loaded">>, count |-> 0]
    /\ (call.op = "get_collection_info" /\ vectorstore # None /\ call.count_ok) =>
           ret.count = Len(inserted)

\* C4: generate_answer never raises: a failure of the search or of the hosted
\* model gives a result whose answer embeds the error description, with empty
\* sources and context, and the hosted model is called at most once.
C4_FailuresAbsorbed ==
    AnswerCall =>
        /\ ~ret.raised
        /\ ret.llm_calls <= 1
        /\ Retrieved.raised =>
               /\ Embeds(ret.result.answer, call.search.error)
               /\ ret.result.sources = << >>
               /\ ret.result.context = << >>
               /\ ret.llm_calls = 0
        /\ (~Retrieved.raised /\ Retrieved.value # << >> /\ ~call.llm.ok) =>
               /\ Embeds(ret.result.answer, call.llm.error)
               /\ ret.result.sources = << >>
               /\ ret.result.context = << >>
               /\ ret.llm_calls = 1

\* the hosted model failed on a question with retrieved chunks
C4_Witness ==
    /\ AnswerCall
    /\ ~Retrieved.raised
    /\ Retrieved.value # << >>
    /\ ~call.llm.ok
    /\ ~ret.raised

\* C5: every result of generate_answer has the four fields answer, sources,
\* context and question, question being the caller's question.
C5_ResultHasFourFields ==
    AnswerCall =>
        /\ ~ret.raised
        /\ DOMAIN ret.result = {"answer", "sources", "context", "question"}
        /\ ret.result.question = call.query

\* C6: on a successful answer, sources has one entry per retrieved chunk, in
\* retrieval order, with the chunk's filename and a preview that is the content
\* when it has at most 200 characters and else its first 200 characters followed
\* by "...", so never more than 203 characters.
C6_SourcesMirrorRetrieval ==
    AnswerSucceeded =>
        LET documents == Retrieved.value
            sources == ret.result.sources
        IN  /\ Len(sources) = Len(documents)
            /\ \A i \in 1..Len(documents) :
                  LET content == documents[i].page_content
                      preview == sources[i].content_preview
                  IN  /\ DOMAIN sources[i] = {"filename", "content_preview"}
                      /\ sources[i].filename = documents[i].metadata.filename
                      /\ Len(content) <= 200 => preview = content
                      /\ Len(content) > 200 =>
                             /\ Len(preview) = 203
                             /\ \A j \in 1..200 : preview[j] = content[j]
                             /\ \A j \in 201..203 : preview[j] = "."
                      /\ Len(preview) <= 203

\* two chunks retrieved, one of exactly 200 characters and one longer
C6_Witness ==
    /\ AnswerSucceeded
    /\ Len(ret.result.sources) = 2
    /\ \E i, j \in 1..2 :
          /\ Len(Retrieved.value[i].page_content) = 200
          /\ Len(Retrieved.value[j].page_content) > 200

RECURSIVE TrimLeft(_)
TrimLeft(s) == IF s # << >> /\ Head(s) \in Whitespace THEN TrimLeft(Tail(s)) ELSE s

RECURSIVE TrimRight(_)
TrimRight(s) ==
    IF s # << >> /\ s[Len(s)] \in Whitespace THEN TrimRight(SubSeq(s, 1, Len(s) - 1)) ELSE s

Ordinal == <<"1", "2", "3", "4", "5", "6", "7", "8", "9">>

Block(i, doc) ==
    <<"Document ", Ordinal[i], " (Source: ">> \o doc.metadata.filename \o <<"):", "\n">>
        \o TrimRight(TrimLeft(doc.page_content))

RECURSIVE Blocks(_, _)
Blocks(documents, n) ==
    IF n = 1
    THEN Block(1, documents[1])
    ELSE Blocks(documents, n - 1) \o <<"\n", "\n">> \o Block(n, documents[n])

\* C9: format_context gives exactly "No relevant context found." for an empty
\* result, and otherwise one block per chunk, "Document i (Source: <filename>):"
\* and the trimmed content on the next line, i counting from 1 in retrieval
\* order, the blocks joined by a blank line, nothing dropped or truncated.
C9_ContextBlocks ==
    /\ call.op = "format_context" =>
           IF call.documents = << >>
           THEN ret = <<"No relevant context found.">>
           ELSE ret = Blocks(call.documents, Len(call.documents))
    /\ AnswerSucceeded =>
           ret.result.context = Blocks(Retrieved.value, Len(Retrieved.value))

\* two chunks formatted, one of them with whitespace to trim
C9_Witness ==
    /\ call.op = "format_context"
    /\ Len(call.documents) = 2
    /\ \E i \in 1..2 : Head(call.documents[i].page_content) \in Whitespace
    /\ \E i \in 1..2 : Len(call.documents[i].page_content) > 200

\* the extension of a file name, without regard to case
ExtensionOf(file) ==
    LET e == file.file_path[Len(file.file_path)]
    IN  CASE e \in {".pdf", ".PDF"} -> "pdf"
          [] e \in {".docx"} -> "docx"
          [] e \in {".txt", ".TXT"} -> "txt"
          [] OTHER -> "unsupported"

ParserFailed(file) ==
    ~file.opens \/ \E i \in DOMAIN file.parts : file.parts[i] = ParseError

RECURSIVE WholeText(_, _)
WholeText(parts, ending) ==
    IF parts = << >> THEN << >> ELSE Head(parts) \o ending \o WholeText(Tail(parts), ending)

\* the text of a file whose parser did not fail
TextOf(file) ==
    WholeText(file.parts, IF ExtensionOf(file) = "docx" THEN <<"\n">> ELSE << >>)

IsBlank(text) == \A i \in DOMAIN text : text[i] \in Whitespace

FileSucceeded(file) ==
    /\ ExtensionOf(file) # "unsupported"
    /\ ~ParserFailed(file)
    /\ ~IsBlank(TextOf(file))

\* the chunks of a file that succeeded, each carrying the file's name
ChunksOf(file, processor) ==
    LET name == <<file.file_path[Len(file.file_path) - 1], file.file_path[Len(file.file_path)]>>
        texts == split_text(TextOf(file), processor)
    IN  [j \in 1..Len(texts) |->
            [page_content |-> texts[j],
             metadata |-> [source |-> file.file_path, filename |-> name]]]

RECURSIVE ChunksOfSucceeded(_, _)
ChunksOfSucceeded(files, processor) ==
    IF files = << >>
    THEN << >>
    ELSE (IF FileSucceeded(Head(files)) THEN ChunksOf(Head(files), processor) ELSE << >>)
             \o ChunksOfSucceeded(Tail(files), processor)

\* C7: process_multiple_documents skips, without raising, every file with an
\* unsupported extension, blank extracted text or a parser failure, and returns
\* exactly the chunks of the files that succeeded, concatenated in input order,
\* each chunk carrying its file's name.
C7_BatchIsolatesFailures ==
    call.op = "process_multiple_documents" =>
        ret = ChunksOfSucceeded(call.file_paths, DocumentProcessor(ChunkSize, ChunkOverlap))

\* the positions of a batch that hold a file of this name
Occurrences(batch, name) == {i \in 1..Len(batch) : batch[i].name = name}

\* `kept` is `batch` with some files left out, the others in their order
KeepsOrder(kept, batch) ==
    \E pos \in [1..Len(kept) -> 1..Len(batch)] :
        /\ \A i \in 1..Len(kept) : kept[i] = batch[pos[i]]
        /\ \A i, j \in 1..Len(kept) : i < j => pos[i] < pos[j]

NoOversizedNoDuplicates(kept) ==
    /\ \A i \in 1..Len(kept) : kept[i].size <= 10 * 1024 * 1024
    /\ \A i, j \in 1..Len(kept) : i # j => kept[i].name # kept[j].name

\* C8 as claimed: the files that proceed hold no file above 10 MB and no
\* filename twice, keep their upload order, and for each filename the file
\* that proceeds is the first occurrence in the batch.
C8_KeepsFirstOccurrenceInBatch ==
    call.op = "filter_uploads" =>
        LET batch == call.uploaded_files
        IN  /\ NoOversizedNoDuplicates(ret)
            /\ KeepsOrder(ret, batch)
            /\ \A i \in 1..Len(ret) :
                  ret[i] = batch[SetMin(Occurrences(batch, ret[i].name))]

\* C8, amended: the files that proceed hold no file above 10 MB and no filename
\* twice, keep their upload order, and for each filename with a file of at most
\* 10 MB the file that proceeds is the first such file of the batch.
C8_KeepsFirstAcceptedOccurrence ==
    call.op = "filter_uploads" =>
        LET batch == call.uploaded_files
            accepted(name) ==
                {i \in Occurrences(batch, name) : batch[i].size <= 10 * 1024 * 1024}
            names == {batch[i].name : i \in 1..Len(batch)}
        IN  /\ NoOversizedNoDuplicates(ret)
            /\ KeepsOrder(ret, batch)
            /\ \A i \in 1..Len(ret) : ret[i] = batch[SetMin(accepted(ret[i].name))]
            /\ \A name \in names :
                  accepted(name) # {} => \E i \in 1..Len(ret) : ret[i].name = name

\* a batch with an oversized file and two different files of one name
C8_Witness ==
    /\ call.op = "filter_uploads"
    /\ \E i \in 1..Len(call.uploaded_files) : call.uploaded_files[i].size > 10 * 1024 * 1024
    /\ \E i, j \in 1..Len(call.uploaded_files) :
          /\ i < j
          /\ call.uploaded_files[i].name = call.uploaded_files[j].name
          /\ call.uploaded_files[i] # call.uploaded_files[j]
          /\ call.uploaded_files[i].size <= 10 * 1024 * 1024
          /\ call.uploaded_files[j].size <= 10 * 1024 * 1024
    /\ Len(ret) = 1

\* the step is an "Ask Question" that reached ask_question()
AskedStep == call'.op = "ask_question"

\* C10: the chat history is append-only and ordered: a question handed to the
\* pipeline appends exactly one record (question, answer, sources) at the end,
\* no other operation changes the history, and the display shows the five most
\* recent records, newest first.
C10_HistoryAppendOnly ==
    /\ [][/\ AskedStep =>
                 /\ ~ret'.raised
                 /\ chat_history' = Append(chat_history,
                                           [question |-> call'.question,
                                            answer |-> ret'.result.answer,
                                            sources |-> ret'.result.sources])
          /\ ~AskedStep => chat_history' = chat_history]_vars
    /\ [](LET shown == display_chat_history(chat_history).expanders
              n == Len(chat_history)
          IN  /\ Len(shown) = IF n < 5 THEN n ELSE 5
              /\ \A i \in 1..Len(shown) :
                    /\ shown[i].answer = chat_history[n - i + 1].answer
                    /\ shown[i].title
                         = <<"Q: ">> \o chat_history[n - i + 1].question \o <<"...">>)

\* six questions answered, a failed one among them, and the knowledge base
\* cleared afterwards
C10_Witness ==
    /\ Len(chat_history) = 6
    /\ call.op = "clear_knowledge_base"
    /\ chat_history[1].answer # chat_history[6].answer
    /\ \E i \in 1..6 : chat_history[i].sources = << >>

\* the step is a "Process Documents" that ended with the given outcome
ProcessedStep(outcome) ==
    /\ call'.op = "process_documents"
    /\ call'.outcome = outcome

\* the step is an "Ask Question" click, answered or rejected
QuestionStep == call'.op \in {"ask_question", "question rejected"}

\* C11: whenever documents_processed is true the session's index is
\* initialized (the store holds a handle), so a question reaches the pipeline
\* only from such a state; clearing the knowledge base, a batch that yields no
\* chunks and a batch that raises leave documents_processed false; only a
\* batch that was inserted sets it; and while it is false every "Ask Question"
\* is rejected (no pipeline call, no history record).
C11_ProcessedImpliesReady ==
    /\ [](documents_processed => vectorstore # None)
    /\ [][/\ AskedStep => documents_processed /\ vectorstore # None
          /\ (\/ call'.op = "clear_knowledge_base"
              \/ ProcessedStep("nothing processed")
              \/ ProcessedStep("error")) => ~documents_processed'
          /\ (documents_processed' /\ ~documents_processed) =>
                 /\ ProcessedStep("processed")
                 /\ Len(collection') > Len(collection)
                 /\ vectorstore' # None
          /\ (QuestionStep /\ ~documents_processed) =>
                 /\ call'.op = "question rejected"
                 /\ ret' = NoCall
                 /\ UNCHANGED <<chat_history, documents_processed>>]_vars

\* a question was answered, the knowledge base was cleared, and a non-blank
\* question asked afterwards is rejected
C11_Witness ==
    /\ chat_history # << >>
    /\ cleared
    /\ ~documents_processed
    /\ call.op = "question rejected"
    /\ strip(call.question) # << >>

\* a batch without text arrives while the index holds documents: the index
\* stays initialized but questions are rejected
C11_WitnessNoChunks ==
    /\ vectorstore # None
    /\ collection # << >>
    /\ ~documents_processed
    /\ call.op = "question rejected"
    /\ strip(call.question) # << >>

====
